---- MODULE Spec2Model ----
(***************************************************************************)
(* Keep-warm coordination engine of custom_components/kettle_protocol      *)
(* (sensor.py: KettleCoordinator, async_setup_entry and                    *)
(* _parse_abort_statuses; binary_sensor.py: the activity indicator).       *)
(*                                                                         *)
(* The engine runs on one asyncio event loop.  _handle_state_event is a    *)
(* synchronous callback; everything it spawns with hass.async_create_task  *)
(* and the timer callback _tick are tasks.  A task runs from one await to  *)
(* the next without interruption; at an await (service call, store save)   *)
(* any other task, callback or environment change may run before it        *)
(* resumes.  Time is counted in seconds.                                   *)
(***************************************************************************)
EXTENDS Integers, Sequences, FiniteSets, Bags, TLC

\* ---------------------------------------------------------------- bounds
\* The clock is observed every TimeStep seconds, up to MaxTime.
TimeStep == 60
MaxTime == 60
\* Tasks that may be in flight at once (created and not yet finished).
MaxTasks == 2
\* Tasks in flight at a time where the saves of several notifications are
\* followed (SaveSpec).
MaxSaveTasks == 4
\* The queries are read every QueryStep seconds, up to MaxQueryTime.
QueryStep == 5
MaxQueryTime == 70
\* Length of the abort-statuses text, over the characters RawChars.
MaxRawLen == 4
\* Configuration: entry.data[CONF_MAX_MINUTES] of the modelled instance.
MaxMinutes == 1

\* ------------------------------------------------------------- constants
UPDATE_ACTIVE_SECONDS == 1
UPDATE_IDLE_SECONDS == 10

\* Configuration of the modelled instance (async_setup_entry).
KeepWarmSwitch == "switch.keep_warm"
StatusEntity == "sensor.status"
WarmValue == "Warm"
AbortStatuses == {"standby"}

\* hass.states.get(entity) returning None (the entity has no live state).
Missing == "<no state>"
SwitchStates == {"on", "off", Missing}
StatusStates == {WarmValue, "standby", Missing}
\* The states written where the saves of several notifications are followed.
SaveSwitchStates == {"on", "off"}
SaveStatusStates == {WarmValue, "standby"}

\* ------------------------------------------------------------ timestamps
\* Python None as the value of start_ts.
None == [v |-> "None"]
\* dt_util.utcnow().isoformat(): the text of the instant t.
IsoFormat(t) == [v |-> "iso", secs |-> t]
\* dt_util.parse_datetime(text): the instant, or NoDt when text is no
\* ISO-8601 timestamp.
NoDt == -1
ParseDatetime(s) == IF s.v = "iso" THEN s.secs ELSE NoDt
\* A start_ts that is a text but no ISO-8601 timestamp.
BadText == [v |-> "text"]

\* --------------------------------------------------------------- store
\* Store.async_load() returns None before the first save.
Absent == [v |-> "absent"]
\* The mapping saved by _persist.
Mapping(ts) == [v |-> "mapping", start_ts |-> ts]
\* stored = await store.async_load() or {}; stored.get("start_ts")
LoadStartTs(stored) == IF stored = Absent THEN None ELSE stored.start_ts

\* async_setup_entry has returned: the coordinator runs.
SetupDone == [v |-> "done"]
\* The process has started again and async_setup_entry has not run yet.
Restarted == [v |-> "restarted"]
\* async_setup_entry resumes from store.async_load() with what it read.
Loaded(stored) == [v |-> "loaded", stored |-> stored]
\* No async_update of the binary sensor is under way.
Idle == [v |-> "idle"]
\* async_update resumes from store.async_load() with what it read.
Loading(stored) == [v |-> "loading", stored |-> stored]

\* ------------------------------------------------------------- texts
\* A text is the sequence of the code points of its characters.
Comma == 44
\* The characters str.strip() removes: those str.isspace() holds of.
Whitespace ==
    (9..13) \cup (28..32) \cup {133, 160, 5760} \cup (8192..8202)
        \cup {8232, 8233, 8239, 8287, 12288}
\* entry.data.get(CONF_ABORT_STATUSES, "standby"): the default, "standby".
DefaultRaw == <<115, 116, 97, 110, 100, 98, 121>>

\* str.split(","): the parts between the commas, at least one.
RECURSIVE SplitComma(_)
SplitComma(s) ==
    IF \A i \in 1..Len(s) : s[i] # Comma
    THEN <<s>>
    ELSE LET i == CHOOSE k \in 1..Len(s) :
                      s[k] = Comma /\ \A j \in 1..(k - 1) : s[j] # Comma
         IN <<SubSeq(s, 1, i - 1)>> \o SplitComma(SubSeq(s, i + 1, Len(s)))

RECURSIVE LStrip(_)
LStrip(s) ==
    IF s # <<>> /\ Head(s) \in Whitespace THEN LStrip(Tail(s)) ELSE s

RECURSIVE RStrip(_)
RStrip(s) ==
    IF s # <<>> /\ s[Len(s)] \in Whitespace
    THEN RStrip(SubSeq(s, 1, Len(s) - 1))
    ELSE s

\* str.strip() removing the leading whitespace only.
StripLeft(s) == LStrip(s)

\* str.strip()
Strip(s) == RStrip(LStrip(s))

IsNonEmpty(p) == p # <<>>

\* _parse_abort_statuses(raw)
ParseAbortStatuses(r) ==
    LET split == SplitComma(r)
        parts == [i \in 1..Len(split) |-> Strip(split[i])]
    IN SelectSeq(parts, IsNonEmpty)

\* ------------------------------------------------- interface events
\* What a step does at the interfaces of the engine: the service call it
\* dispatches, the state-change event it handles, the entities it
\* registers, the exception that leaves a task.  NoCall: nothing.
NoCall == [domain |-> "none"]
\* event.data of the state-change event handed to _handle_state_event.
Event(entity_id, new_state) ==
    [domain |-> "event", entity_id |-> entity_id, new_state |-> new_state]
\* async_add_entities([...]) in async_setup_entry.
AddEntitiesCall == [domain |-> "async_add_entities"]
\* store.async_save raised in a task of the given kind.
SaveError(kind) == [domain |-> "exception", task |-> kind]
TurnOffCall == [domain |-> "switch", service |-> "turn_off",
                entity_id |-> KeepWarmSwitch]
NotifyCall(reason) == [domain |-> "persistent_notification",
                       service |-> "create", reason |-> reason]
StatusReason(s) == [why |-> "Abort: status", s |-> s]
TimeoutReason == [why |-> "Max time reached", minutes |-> MaxMinutes]
NoReason == [why |-> ""]

VARIABLES
    now,         \* dt_util.utcnow(), in seconds
    switch,      \* live state of the keep-warm switch
    status,      \* live state of the status entity
    store,       \* content of the durable store
    start_ts,    \* RuntimeState.start_ts of the coordinator
    unsub,       \* self._unsub is set: subscribed to state changes
    tick_unsub,  \* self._tick_unsub is set
    timer,       \* pending async_call_later: 0 = none, else its interval
    tasks,       \* the bag of tasks in flight
    last,        \* what the last step did at the engine's interfaces
    bs_start_ts, \* KettleProtocolActiveBinarySensor._start_ts
    raw,         \* the text handed to _parse_abort_statuses
    setup,       \* how far async_setup_entry has got since the process start
    bs_poll      \* async_update of the binary sensor: idle, or what it loaded

vars == <<now, switch, status, store, start_ts, unsub, tick_unsub, timer,
          tasks, last, bs_start_ts, raw, setup, bs_poll>>

\* --------------------------------------------------------------- queries
\* is_protocol_active looking at the anchor alone.
IsActiveAnchorOnly(sw, ts) == ts # None

\* KettleCoordinator.is_protocol_active, for a live switch state sw and an
\* anchor ts.
IsActive(sw, ts) ==
    IF sw = Missing \/ sw # "on" THEN FALSE ELSE ts # None

IsProtocolActive == IsActive(switch, start_ts)

\* KettleCoordinator._start_dt
StartDt(ts) == IF ts = None THEN NoDt ELSE ParseDatetime(ts)

\* KettleCoordinator.remaining_td at time t: seconds left, NoTd for None.
NoTd == -1
\* remaining_td returning a negative rem as it is.
RemainingAtNoFloor(sw, ts, t) ==
    IF ~IsActive(sw, ts) THEN NoTd
    ELSE IF StartDt(ts) = NoDt THEN NoTd
    ELSE LET elapsed == t - StartDt(ts)
             cap == 60 * MaxMinutes
             rem == cap - elapsed
         IN rem

RemainingAt(sw, ts, t) ==
    IF ~IsActive(sw, ts) THEN NoTd
    ELSE IF StartDt(ts) = NoDt THEN NoTd
    ELSE LET elapsed == t - StartDt(ts)
             cap == 60 * MaxMinutes
             rem == cap - elapsed
         IN IF rem < 0 THEN 0 ELSE rem

RemainingTd == RemainingAt(switch, start_ts, now)

\* Python None as the value of a text.
NoText == "<None>"
\* f"{n:02d}" without the zero padding.
Pad2NoZero(n) == ToString(n)

\* f"{n:02d}"
Pad2(n) == IF n < 10 THEN "0" \o ToString(n) ELSE ToString(n)

\* f"{m:02d}:{s:02d}" of a number of seconds.
Mmss(total) == Pad2(total \div 60) \o ":" \o Pad2(total % 60)

\* KettleCoordinator.remaining_mmss at time t
RemainingMmssAt(sw, ts, t) ==
    LET rem == RemainingAt(sw, ts, t)
    IN IF rem = NoTd THEN NoText ELSE Mmss(rem)

\* KettleCoordinator.status_live for the live status st and the configured
\* warm value wv.
StatusLive(st, wv, sw, ts, t) ==
    LET s == IF st = Missing THEN "unknown" ELSE st
        mmss == RemainingMmssAt(sw, ts, t)
    IN IF s = wv /\ IsActive(sw, ts)
       THEN IF mmss # NoText /\ mmss # ""
            THEN "Warm (" \o mmss \o ")"
            ELSE "Warm"
       ELSE IF s = "heating" THEN "Heating"
       ELSE IF s = "standby" THEN "Standby"
       ELSE IF s = wv THEN "Warm"
       ELSE s

\* ----------------------------------------------------------------- tasks
\* kind: "persist" (_persist spawned by _handle_state_event), "etick"
\* (async_tick spawned by _handle_state_event), "ptick" (_tick, the timer
\* callback).  nid: the notification that spawned a persist task and the
\* eager tick next to it (0 for a task spawned alone).  pc: the await the
\* task is suspended at, i.e. the segment it runs next.  data: the mapping
\* value handed to store.async_save.  ticket: the position of its save
\* among the saves under way.  reason, offs: the reason of the force-abort
\* it performs and the number of turn_off calls it has issued.
Task(kind, nid, pc) ==
    [kind |-> kind, nid |-> nid, pc |-> pc, data |-> None, ticket |-> 0,
     reason |-> NoReason, offs |-> 0]

IsTick(t) == t.kind \in {"etick", "ptick"}

Running == BagToSet(tasks)

One(t) == SetToBag({t})

\* A notification number no task in flight carries.
FreshNid ==
    CHOOSE n \in 1..(MaxSaveTasks + 1) :
        /\ \A t \in Running : t.nid # n
        /\ \A m \in 1..(n - 1) : \E t \in Running : t.nid = m

\* Saves complete in the order store.async_save was called.
NextTicket == 1 + Cardinality({t \in Running : t.pc = "saving"})

ServedTask(t) ==
    IF t.pc = "saving" THEN [t EXCEPT !.ticket = @ - 1] ELSE t

Served(bag) ==
    [x \in {ServedTask(t) : t \in BagToSet(bag)} |->
        bag[CHOOSE t \in BagToSet(bag) : ServedTask(t) = x]]

\* KettleCoordinator._ensure_tick: the interval of the timer it schedules
\* (it cancels the timer self._tick_unsub refers to first).
EnsureTickInterval(sw, ts) ==
    IF IsActive(sw, ts) THEN UPDATE_ACTIVE_SECONDS ELSE UPDATE_IDLE_SECONDS

\* ------------------------------------------------------------------ Init
\* The state when async_setup_entry returns on the first run: nothing was
\* ever saved, the coordinator is constructed and async_start has
\* subscribed and scheduled the first tick.
Init ==
    /\ now = 0
    /\ switch \in SwitchStates
    /\ status \in StatusStates
    /\ store = Absent
    /\ start_ts = LoadStartTs(Absent)
    /\ unsub = TRUE
    /\ tick_unsub = TRUE
    /\ timer = EnsureTickInterval(switch, LoadStartTs(Absent))
    /\ tasks = EmptyBag
    /\ last = NoCall
    /\ bs_start_ts = None
    /\ raw = DefaultRaw
    /\ setup = SetupDone
    /\ bs_poll = Idle

\* --------------------------------------------------------------- actions
\* The clock advances.
AdvanceTime ==
    /\ now + TimeStep <= MaxTime
    /\ now' = now + TimeStep
    /\ last' = NoCall
    /\ UNCHANGED <<switch, status, store, start_ts, unsub, tick_unsub, timer,
                   tasks, bs_start_ts, raw, setup, bs_poll>>

\* _handle_state_event anchoring on every "on", anchored or not.
HandledAnchorRearm(entity_id, new_state) ==
    IF new_state = Missing THEN start_ts
    ELSE IF entity_id = KeepWarmSwitch
    THEN IF new_state = "on" THEN IsoFormat(now)
         ELSE IF start_ts # None THEN None ELSE start_ts
    ELSE start_ts

\* KettleCoordinator._handle_state_event for event.data = {entity_id,
\* new_state}: the anchor it leaves.
HandledAnchor(entity_id, new_state) ==
    IF new_state = Missing THEN start_ts
    ELSE IF entity_id = KeepWarmSwitch
    THEN IF new_state = "on"
         THEN IF start_ts = None THEN IsoFormat(now) ELSE start_ts
         ELSE IF start_ts # None THEN None ELSE start_ts
    ELSE start_ts

\* _handle_state_event spawning no _persist while one is in flight.
HandledTasksCoalesced(entity_id, new_state) ==
    IF new_state = Missing THEN EmptyBag
    ELSE IF /\ HandledAnchor(entity_id, new_state) # start_ts
            /\ ~\E t \in Running : t.kind = "persist"
    THEN One(Task("persist", FreshNid, "start"))
         (+) One(Task("etick", FreshNid, "eval"))
    ELSE One(Task("etick", 0, "eval"))

\* KettleCoordinator._handle_state_event: the tasks it spawns.
HandledTasks(entity_id, new_state) ==
    IF new_state = Missing THEN EmptyBag
    ELSE IF HandledAnchor(entity_id, new_state) # start_ts
    THEN One(Task("persist", FreshNid, "start"))
         (+) One(Task("etick", FreshNid, "eval"))
    ELSE One(Task("etick", 0, "eval"))

\* An entity's live state changes (or is written again, or the entity is
\* removed) and the event source delivers the state-change event to the
\* subscribed handler.
StateChangeWithin(cap, entity_id, new_state) ==
    /\ entity_id = KeepWarmSwitch => new_state \in SwitchStates
    /\ entity_id = StatusEntity => new_state \in StatusStates
    /\ new_state = Missing =>
          (IF entity_id = KeepWarmSwitch THEN switch ELSE status) # Missing
    /\ IF entity_id = KeepWarmSwitch
       THEN switch' = new_state /\ UNCHANGED status
       ELSE status' = new_state /\ UNCHANGED switch
    /\ IF unsub
       THEN /\ BagCardinality(tasks (+) HandledTasks(entity_id, new_state))
                  <= cap
            /\ start_ts' = HandledAnchor(entity_id, new_state)
            /\ tasks' = tasks (+) HandledTasks(entity_id, new_state)
            /\ last' = Event(entity_id, new_state)
       ELSE /\ UNCHANGED <<start_ts, tasks>>
            /\ last' = NoCall
    /\ UNCHANGED <<now, store, unsub, tick_unsub, timer, bs_start_ts, raw,
                   setup, bs_poll>>

StateChange(entity_id, new_state) ==
    StateChangeWithin(MaxTasks, entity_id, new_state)

\* The pending timer fires: the event source starts _tick, while fewer
\* than cap tasks are in flight.
TimerFireWithin(cap) ==
    /\ timer # 0
    /\ BagCardinality(tasks) < cap
    /\ timer' = 0
    /\ tasks' = tasks (+) One(Task("ptick", 0, "eval"))
    /\ last' = NoCall
    /\ UNCHANGED <<now, switch, status, store, start_ts, unsub, tick_unsub,
                   bs_start_ts, raw, setup, bs_poll>>

TimerFire == TimerFireWithin(MaxTasks)

\* async_tick with the timeout test made before the status test.
TickDecisionTimeoutFirst ==
    LET s == status
    IN IF IsProtocolActive /\ RemainingTd # NoTd /\ RemainingTd <= 0
       THEN TimeoutReason
       ELSE IF IsProtocolActive /\ s # Missing /\ s \in AbortStatuses
       THEN StatusReason(s)
       ELSE NoReason

\* async_tick testing the anchor alone where it tests is_protocol_active.
TickDecisionAnchorOnly ==
    LET s == status
    IN IF start_ts # None /\ s # Missing /\ s \in AbortStatuses
       THEN StatusReason(s)
       ELSE IF IsProtocolActive /\ RemainingTd # NoTd /\ RemainingTd <= 0
       THEN TimeoutReason
       ELSE NoReason

\* async_tick with the timeout test written rem < 0.
TickDecisionStrict ==
    LET s == status
    IN IF IsProtocolActive /\ s # Missing /\ s \in AbortStatuses
       THEN StatusReason(s)
       ELSE IF IsProtocolActive /\ RemainingTd # NoTd /\ RemainingTd < 0
       THEN TimeoutReason
       ELSE NoReason

\* KettleCoordinator.async_tick: the reason it force-aborts for, NoReason
\* when it does not.
TickDecision ==
    LET s == status
    IN IF IsProtocolActive /\ s # Missing /\ s \in AbortStatuses
       THEN StatusReason(s)
       ELSE IF IsProtocolActive /\ RemainingTd # NoTd /\ RemainingTd <= 0
       THEN TimeoutReason
       ELSE NoReason

\* What is left of a tick task once the notification call of a forced
\* abort has been made: the timer callback resumes at _ensure_tick, the
\* eager tick is finished.
AfterTick(t) ==
    IF t.kind = "ptick"
    THEN (tasks (-) One(t)) (+) One([t EXCEPT !.pc = "resched"])
    ELSE tasks (-) One(t)

\* async_tick entering the force-abort without the turn_off call.
TickEvalNoOff(t) ==
    /\ BagIn(t, tasks) /\ IsTick(t) /\ t.pc = "eval"
    /\ t.nid # 0 =>
          ~\E p \in Running :
              p.kind = "persist" /\ p.nid = t.nid /\ p.pc = "start"
    /\ IF TickDecision # NoReason
       THEN /\ last' = NoCall
            /\ tasks' = (tasks (-) One(t))
                        (+) One([t EXCEPT !.pc = "clear",
                                          !.reason = TickDecision])
            /\ UNCHANGED <<timer, tick_unsub>>
       ELSE /\ last' = NoCall
            /\ tasks' = tasks (-) One(t)
            /\ timer' = IF t.kind = "ptick"
                        THEN EnsureTickInterval(switch, start_ts)
                        ELSE timer
            /\ tick_unsub' = IF t.kind = "ptick" THEN TRUE ELSE tick_unsub
    /\ UNCHANGED <<now, switch, status, store, start_ts, unsub, bs_start_ts,
                   raw, setup, bs_poll>>

\* async_tick up to its first await: evaluate the policy and, on an abort,
\* enter _force_keep_warm_off and dispatch switch.turn_off.  With no abort
\* async_tick returns without suspending: the eager tick is finished and
\* the timer callback goes on to _ensure_tick in the same segment,
\* scheduling the next tick.  The eager tick of a notification starts
\* after the _persist task the handler created before it (the loop starts
\* tasks in the order of their creation).
TickEval(t) ==
    /\ BagIn(t, tasks) /\ IsTick(t) /\ t.pc = "eval"
    /\ t.nid # 0 =>
          ~\E p \in Running :
              p.kind = "persist" /\ p.nid = t.nid /\ p.pc = "start"
    /\ IF TickDecision # NoReason
       THEN /\ last' = TurnOffCall
            /\ tasks' = (tasks (-) One(t))
                        (+) One([t EXCEPT !.pc = "clear",
                                          !.reason = TickDecision,
                                          !.offs = @ + 1])
            /\ UNCHANGED <<timer, tick_unsub>>
       ELSE /\ last' = NoCall
            /\ tasks' = tasks (-) One(t)
            /\ timer' = IF t.kind = "ptick"
                        THEN EnsureTickInterval(switch, start_ts)
                        ELSE timer
            /\ tick_unsub' = IF t.kind = "ptick" THEN TRUE ELSE tick_unsub
    /\ UNCHANGED <<now, switch, status, store, start_ts, unsub, bs_start_ts,
                   raw, setup, bs_poll>>

\* _force_keep_warm_off after the turn_off call returned: _clear sets the
\* anchor to None and _persist hands the mapping to the store.
TickClear(t) ==
    /\ BagIn(t, tasks) /\ IsTick(t) /\ t.pc = "clear"
    /\ start_ts' = None
    /\ tasks' = (tasks (-) One(t))
                (+) One([t EXCEPT !.pc = "saving", !.data = start_ts',
                                  !.ticket = NextTicket])
    /\ last' = NoCall
    /\ UNCHANGED <<now, switch, status, store, unsub, tick_unsub, timer,
                   bs_start_ts, raw, setup, bs_poll>>

\* _persist spawned by the handler starts: it reads the anchor and hands
\* the mapping to the store.
PersistStart(t) ==
    /\ BagIn(t, tasks) /\ t.kind = "persist" /\ t.pc = "start"
    /\ tasks' = (tasks (-) One(t))
                (+) One([t EXCEPT !.pc = "saving", !.data = start_ts,
                                  !.ticket = NextTicket])
    /\ last' = NoCall
    /\ UNCHANGED <<now, switch, status, store, start_ts, unsub, tick_unsub,
                   timer, bs_start_ts, raw, setup, bs_poll>>

\* store.async_save completes: the mapping is durable and the task resumes
\* (a _persist task is finished, a tick goes on to the notification).
SaveDone(t) ==
    /\ BagIn(t, tasks) /\ t.pc = "saving" /\ t.ticket = 1
    /\ store' = Mapping(t.data)
    /\ tasks' = IF t.kind = "persist"
                THEN Served(tasks (-) One(t))
                ELSE Served(tasks (-) One(t))
                     (+) One([t EXCEPT !.pc = "notify", !.ticket = 0])
    /\ last' = NoCall
    /\ UNCHANGED <<now, switch, status, start_ts, unsub, tick_unsub, timer,
                   bs_start_ts, raw, setup, bs_poll>>

\* store.async_save raises: nothing is written and the exception ends the
\* task (nothing in the coordinator catches it).
SaveFail(t) ==
    /\ BagIn(t, tasks) /\ t.pc = "saving" /\ t.ticket = 1
    /\ tasks' = Served(tasks (-) One(t))
    /\ last' = SaveError(t.kind)
    /\ UNCHANGED <<now, switch, status, store, start_ts, unsub, tick_unsub,
                   timer, bs_start_ts, raw, setup, bs_poll>>

\* _force_keep_warm_off after _clear: the notification, then async_tick
\* returns.
TickNotify(t) ==
    /\ BagIn(t, tasks) /\ IsTick(t) /\ t.pc = "notify"
    /\ last' = NotifyCall(t.reason)
    /\ tasks' = AfterTick(t)
    /\ UNCHANGED <<now, switch, status, store, start_ts, unsub, tick_unsub,
                   timer, bs_start_ts, raw, setup, bs_poll>>

\* _tick resuming after the notification call of a forced abort:
\* async_tick returns and _ensure_tick schedules the next tick.
Resched(t) ==
    /\ BagIn(t, tasks) /\ t.kind = "ptick" /\ t.pc = "resched"
    /\ timer' = EnsureTickInterval(switch, start_ts)
    /\ tick_unsub' = TRUE
    /\ tasks' = tasks (-) One(t)
    /\ last' = NoCall
    /\ UNCHANGED <<now, switch, status, store, start_ts, unsub, bs_start_ts,
                   raw, setup, bs_poll>>

\* KettleCoordinator.async_stop
AsyncStop ==
    /\ setup = SetupDone
    /\ unsub' = FALSE
    /\ timer' = IF tick_unsub THEN 0 ELSE timer
    /\ tick_unsub' = FALSE
    /\ last' = NoCall
    /\ UNCHANGED <<now, switch, status, store, start_ts, tasks, bs_start_ts,
                   raw, setup, bs_poll>>

\* The process stops and starts again: the coordinator, its subscription,
\* its timer and the tasks in flight are gone, the store is what was saved;
\* binary_sensor.async_setup_entry constructs a new sensor.
ProcessRestart ==
    /\ setup # Restarted
    /\ setup' = Restarted
    /\ start_ts' = None
    /\ tasks' = EmptyBag
    /\ unsub' = FALSE
    /\ tick_unsub' = FALSE
    /\ timer' = 0
    /\ bs_start_ts' = None
    /\ bs_poll' = Idle
    /\ last' = NoCall
    /\ UNCHANGED <<now, switch, status, store, raw>>

\* async_setup_entry up to its first await: store.async_load() reads the
\* store.
AsyncSetupLoad ==
    /\ setup = Restarted
    /\ setup' = Loaded(store)
    /\ last' = NoCall
    /\ UNCHANGED <<now, switch, status, store, start_ts, unsub, tick_unsub,
                   timer, tasks, bs_start_ts, raw, bs_poll>>

\* async_setup_entry anchoring a loaded anchor at the time of the set-up.
AsyncSetupEntryReanchor ==
    /\ setup.v = "loaded"
    /\ start_ts' = IF LoadStartTs(setup.stored) # None
                   THEN IsoFormat(now) ELSE None
    /\ tasks' = EmptyBag
    /\ unsub' = TRUE
    /\ tick_unsub' = TRUE
    /\ timer' = EnsureTickInterval(switch, start_ts')
    /\ last' = AddEntitiesCall
    /\ setup' = SetupDone
    /\ UNCHANGED <<now, switch, status, store, bs_start_ts, raw, bs_poll>>

\* async_setup_entry after store.async_load() returned: the anchor is
\* taken from what was loaded, the coordinator is constructed, the sensors
\* are added and async_start subscribes and schedules the first tick.
AsyncSetupEntry ==
    /\ setup.v = "loaded"
    /\ start_ts' = LoadStartTs(setup.stored)
    /\ tasks' = EmptyBag
    /\ unsub' = TRUE
    /\ tick_unsub' = TRUE
    /\ timer' = EnsureTickInterval(switch, start_ts')
    /\ last' = AddEntitiesCall
    /\ setup' = SetupDone
    /\ UNCHANGED <<now, switch, status, store, bs_start_ts, raw, bs_poll>>

\* A task runs its next segment; the save it waits for succeeds.
TaskStep(t) ==
    \/ TickEval(t)
    \/ TickClear(t)
    \/ PersistStart(t)
    \/ SaveDone(t)
    \/ TickNotify(t)
    \/ Resched(t)

\* One run of the engine on a store that does not fail.
Run ==
    \/ AdvanceTime
    \/ \E v \in SwitchStates : StateChange(KeepWarmSwitch, v)
    \/ \E v \in StatusStates : StateChange(StatusEntity, v)
    \/ TimerFire
    \/ \E t \in Running : TaskStep(t)

Next ==
    \/ Run
    \/ \E t \in Running : SaveFail(t)
    \/ ProcessRestart
    \/ AsyncSetupLoad
    \/ AsyncSetupEntry

\* The engine from async_start on, as long as async_stop is not called.
Spec == Init /\ [][Next]_vars

\* The engine with async_stop called at any time.
NextStop == Next \/ AsyncStop

StopSpec == Init /\ [][NextStop]_vars

\* One run of the engine on a store that does not fail, under a fair event
\* loop: the pending timer fires, every task that is ready runs and every
\* save completes.
FairSpec ==
    /\ Init /\ [][Run]_vars
    /\ WF_vars(TimerFire)
    /\ WF_vars(\E t \in Running : TickEval(t))
    /\ WF_vars(\E t \in Running : TickClear(t))
    /\ WF_vars(\E t \in Running : PersistStart(t))
    /\ WF_vars(\E t \in Running : SaveDone(t))
    /\ WF_vars(\E t \in Running : TickNotify(t))
    /\ WF_vars(\E t \in Running : Resched(t))

\* One run of the engine on a store that does not fail, with up to
\* MaxSaveTasks tasks in flight: two notifications that change the anchor
\* can be handled before any of their tasks has started.
SaveRun ==
    \/ AdvanceTime
    \/ \E v \in SaveSwitchStates :
          StateChangeWithin(MaxSaveTasks, KeepWarmSwitch, v)
    \/ \E v \in SaveStatusStates :
          StateChangeWithin(MaxSaveTasks, StatusEntity, v)
    \/ TimerFireWithin(MaxSaveTasks)
    \/ \E t \in Running : TaskStep(t)

SaveSpec == Init /\ [][SaveRun]_vars

\* ------------------------------------------------ the activity indicator
\* KettleProtocolActiveBinarySensor.is_on
IsOn ==
    LET keep_on == switch # Missing /\ switch = "on"
    IN keep_on /\ bs_start_ts # None

\* async_update up to its await: store.async_load() reads the store.
AsyncUpdateLoad ==
    /\ bs_poll = Idle
    /\ bs_poll' = Loading(store)
    /\ last' = NoCall
    /\ UNCHANGED <<now, switch, status, store, start_ts, unsub, tick_unsub,
                   timer, tasks, bs_start_ts, raw, setup>>

\* async_update taking the anchor from the coordinator's RuntimeState.
AsyncUpdateFromMemory ==
    /\ bs_poll.v = "loading"
    /\ bs_start_ts' = start_ts
    /\ bs_poll' = Idle
    /\ last' = NoCall
    /\ UNCHANGED <<now, switch, status, store, start_ts, unsub, tick_unsub,
                   timer, tasks, raw, setup>>

\* async_update after store.async_load() returned: the sensor keeps the
\* anchor of what was loaded; the poll ends and is_on is read.
AsyncUpdate ==
    /\ bs_poll.v = "loading"
    /\ bs_start_ts' = LoadStartTs(bs_poll.stored)
    /\ bs_poll' = Idle
    /\ last' = NoCall
    /\ UNCHANGED <<now, switch, status, store, start_ts, unsub, tick_unsub,
                   timer, tasks, raw, setup>>

IndicatorNext == Run \/ AsyncUpdateLoad \/ AsyncUpdate

\* One run of the engine on a store that does not fail, with the binary
\* sensor polled at any time.
IndicatorSpec == Init /\ [][IndicatorNext]_vars

\* ---------------------------------------------------------- the queries
\* The live values of the status entity and the anchors the queries are
\* read on; the warm values of the configurations considered.
LabelStatuses == StatusStates \cup {"heating", "unknown", "boil"}
QueryAnchors == {None, BadText, IsoFormat(0), IsoFormat(25)}
\* The stores the coordinator is set up from.
QueryStores == {Absent} \cup {Mapping(a) : a \in QueryAnchors}
WarmValues == {WarmValue, "heating", "standby", "unknown"}

\* A coordinator set up on any live states from any store.
QueryInit ==
    /\ now = 0
    /\ switch \in SwitchStates
    /\ status \in LabelStatuses
    /\ store \in QueryStores
    /\ start_ts = LoadStartTs(store)
    /\ unsub = TRUE
    /\ tick_unsub = TRUE
    /\ timer = EnsureTickInterval(switch, start_ts)
    /\ tasks = EmptyBag
    /\ last = NoCall
    /\ bs_start_ts = None
    /\ raw = DefaultRaw
    /\ setup = SetupDone
    /\ bs_poll = Idle

\* The clock advances between two reads of the sensors.
ClockStep ==
    /\ now + QueryStep <= MaxQueryTime
    /\ now' = now + QueryStep
    /\ UNCHANGED <<switch, status, store, start_ts, unsub, tick_unsub, timer,
                   tasks, last, bs_start_ts, raw, setup, bs_poll>>

\* remaining_td, remaining_mmss and status_live read as time passes.
QuerySpec == QueryInit /\ [][ClockStep]_vars

\* ------------------------------------------------- abort-status parsing
\* a, b, blank, tab, line feed, no-break space and the comma.
RawChars == {97, 98, 32, 9, 10, 160, Comma}

\* The coordinator of Init next to an abort-statuses text still empty.
ParseInit ==
    /\ now = 0
    /\ switch = Missing
    /\ status = Missing
    /\ store = Absent
    /\ start_ts = LoadStartTs(Absent)
    /\ unsub = TRUE
    /\ tick_unsub = TRUE
    /\ timer = EnsureTickInterval(switch, LoadStartTs(Absent))
    /\ tasks = EmptyBag
    /\ last = NoCall
    /\ bs_start_ts = None
    /\ raw = <<>>
    /\ setup = SetupDone
    /\ bs_poll = Idle

\* The text of the abort statuses grows by one character.
EditRaw(c) ==
    /\ Len(raw) < MaxRawLen
    /\ raw' = Append(raw, c)
    /\ UNCHANGED <<now, switch, status, store, start_ts, unsub, tick_unsub,
                   timer, tasks, last, bs_start_ts, setup, bs_poll>>

ParseNext == \E c \in RawChars : EditRaw(c)

\* _parse_abort_statuses on every text of at most MaxRawLen characters.
ParseSpec == ParseInit /\ [][ParseNext]_vars

\* ================================================================ claims
\* Some tick (eager or periodic) evaluates the abort/timeout policy.
TickEvaluates == \E t \in Running : TickEval(t)

\* The protocol is active and the anchor is at least max_minutes old.
TimedOut ==
    /\ switch = "on"
    /\ start_ts # None
    /\ ParseDatetime(start_ts) # NoDt
    /\ now - ParseDatetime(start_ts) >= 60 * MaxMinutes

\* A tick is pending on the timer or in flight.
TickLoopAlive == timer # 0 \/ \E t \in Running : t.kind = "ptick"

\* C1. Timeout abort: a tick evaluation in a state where the protocol is
\* active and the anchor is at least max_minutes old dispatches
\* switch.turn_off for the keep-warm switch and enters the force-abort; the
\* force-abort sets the anchor to None in memory and the save it makes
\* stores None; with the event loop fair, while such a state lasts and a
\* tick is pending or in flight, the turn_off is eventually dispatched.
C1_TimeoutAbort ==
    /\ [][(TickEvaluates /\ TimedOut) =>
            /\ last' = TurnOffCall
            /\ \E t \in BagToSet(tasks') :
                  IsTick(t) /\ t.pc = "clear" /\ t.offs = 1]_vars
    /\ [][\A t \in Running : TickClear(t) => start_ts' = None]_vars
    /\ [][\A t \in Running :
            (IsTick(t) /\ SaveDone(t)) => store' = Mapping(None)]_vars
    /\ (TimedOut /\ TickLoopAlive)
          ~> (last = TurnOffCall \/ ~(TimedOut /\ TickLoopAlive))

\* A timeout abort has run to its notification: the anchor is None in
\* memory and in the store.
C1_Witness ==
    /\ \E t \in Running :
          IsTick(t) /\ t.pc = "notify" /\ t.reason = TimeoutReason
    /\ start_ts = None
    /\ store = Mapping(None)
    /\ switch = "on"

\* The protocol is active: the switch is on and an anchor is set.
Armed == switch = "on" /\ start_ts # None

\* The tick tasks of a bag that have not evaluated yet.
EvalTicks(bag) ==
    BagCardinality([t \in {x \in BagToSet(bag) :
                              x.kind = "etick" /\ x.pc = "eval"} |-> bag[t]])

\* The task t once it has entered the force-abort for a reason.
Aborting(t, reason) ==
    [t EXCEPT !.pc = "clear", !.reason = reason, !.offs = 1]

\* C2. Status abort: a tick evaluation in a state where the protocol is
\* active and the live status is one of abort_statuses dispatches
\* switch.turn_off and enters the force-abort with the status reason,
\* whatever the age of the anchor and also when the timeout holds as well;
\* the force-abort clears the anchor, a tick issues at most one turn_off,
\* and the notification carries the reason of its tick.
C2_StatusAbort ==
    /\ [][\A t \in Running :
            (TickEval(t) /\ Armed /\ status \in AbortStatuses) =>
                /\ last' = TurnOffCall
                /\ CopiesIn(Aborting(t, StatusReason(status)), tasks')
                      = CopiesIn(Aborting(t, StatusReason(status)), tasks) + 1
         ]_vars
    /\ [][\A t \in Running : TickClear(t) => start_ts' = None]_vars
    /\ [][\A t \in Running :
            TickNotify(t) => last' = NotifyCall(t.reason)]_vars
    /\ [](\A t \in Running : t.offs <= 1)

\* A tick has aborted for the status while the timeout held as well.
C2_Witness ==
    /\ last = TurnOffCall
    /\ TimedOut
    /\ status \in AbortStatuses
    /\ \E t \in Running :
          IsTick(t) /\ t.pc = "clear" /\ t.reason = StatusReason(status)

\* The keep-warm switch event with the given new state was handled.
SwitchOn == Event(KeepWarmSwitch, "on")
SwitchNotOn == {Event(KeepWarmSwitch, s) : s \in SwitchStates \ {"on"}}
Clears == \E t \in Running : TickClear(t)

\* C3. is_active holds exactly when the live switch state is "on" and the
\* anchor is set; it is true after every "on" event of the switch, false
\* after every other event of the switch and after every forced abort; it
\* becomes true only by an "on" event (or a set-up that loads an anchor)
\* and false only by a non-"on" event, a forced abort or the process
\* stopping; after a set-up it is true exactly when the switch is on and the
\* store holds an anchor, so a switch that is on with no anchor is never
\* active.
C3_ActiveIff ==
    /\ [](IsProtocolActive <=> (switch = "on" /\ start_ts # None))
    /\ [][last' = SwitchOn => IsProtocolActive']_vars
    /\ [][last' \in SwitchNotOn => ~IsProtocolActive']_vars
    /\ [][Clears => ~IsProtocolActive']_vars
    /\ [][(~IsProtocolActive /\ IsProtocolActive') =>
            last' = SwitchOn \/ last' = AddEntitiesCall]_vars
    /\ [][(IsProtocolActive /\ ~IsProtocolActive') =>
            last' \in SwitchNotOn \/ Clears \/ ProcessRestart]_vars
    /\ [][last' = AddEntitiesCall =>
            (IsProtocolActive' <=>
                (switch = "on" /\ store # Absent /\ store.start_ts # None))]_vars

\* The component was set up from an empty store while the switch is on.
C3_Witness ==
    /\ last = AddEntitiesCall
    /\ store = Absent
    /\ switch = "on"
    /\ ~IsProtocolActive

\* C4. Recovery: when async_setup_entry runs on a store that holds an
\* anchor T while the switch is on, the protocol is active at once, the
\* anchor in memory is T and the remaining time is max(0, max_minutes -
\* (now - T)).
C4_Recovery ==
    [][(last' = AddEntitiesCall /\ store # Absent /\ store.start_ts # None
            /\ switch = "on") =>
          /\ start_ts' = store.start_ts
          /\ IsProtocolActive'
          /\ RemainingTd' =
                IF 60 * MaxMinutes - (now - store.start_ts.secs) < 0 THEN 0
                ELSE 60 * MaxMinutes - (now - store.start_ts.secs)]_vars

\* The engine has just been set up from a stored anchor older than now,
\* with the switch on and no notification handled yet.
C4_Witness ==
    /\ last = AddEntitiesCall
    /\ tasks = EmptyBag
    /\ switch = "on"
    /\ start_ts # None
    /\ store = Mapping(start_ts)
    /\ ParseDatetime(start_ts) < now
    /\ IsProtocolActive
    /\ RemainingTd < 60 * MaxMinutes

\* C5. Idempotence of arming: handling an "on" event of the keep-warm
\* switch while an anchor is set leaves the anchor unchanged, writes
\* nothing to the store and spawns no save.
C5_ArmIdempotent ==
    [][(last' = Event(KeepWarmSwitch, "on") /\ start_ts # None) =>
          /\ start_ts' = start_ts
          /\ store' = store
          /\ \A t \in BagToSet(tasks') :
                t.kind = "persist" => CopiesIn(t, tasks') = CopiesIn(t, tasks)
      ]_vars

\* An "on" event was handled while the anchor was older than now and
\* saved.
C5_Witness ==
    /\ last = Event(KeepWarmSwitch, "on")
    /\ start_ts # None
    /\ ParseDatetime(start_ts) < now
    /\ store = Mapping(start_ts)

\* C6. Force-abort ordering: a tick in the force-abort has issued exactly
\* one turn_off before it clears the anchor; the notification is emitted
\* by a tick whose save of the cleared anchor has completed; a tick whose
\* save fails has issued its turn_off already.
C6_AbortOrder ==
    /\ [](\A t \in Running :
            IsTick(t) =>
                /\ t.pc = "eval" => t.offs = 0
                /\ t.pc \in {"clear", "saving", "notify"} => t.offs = 1)
    /\ [][\A t \in Running :
            (IsTick(t) /\ t.pc = "clear" /\ start_ts' # start_ts
                /\ last' # AddEntitiesCall) => t.offs = 1]_vars
    /\ [][last'.domain = "persistent_notification" =>
            \E t \in Running :
                /\ IsTick(t) /\ t.pc = "notify" /\ t.offs = 1
                /\ t.data = None /\ t.ticket = 0
                /\ last'.reason = t.reason]_vars
    /\ [][(last'.domain = "exception" /\ last'.task # "persist") =>
            \E t \in Running :
                /\ IsTick(t) /\ t.pc = "saving" /\ t.ticket = 1
                /\ t.offs = 1
                /\ tasks' = Served(tasks (-) One(t))
                /\ store' = store]_vars

\* The save of a cleared anchor has failed: the anchor is None in memory
\* and still set in the store.
C6_Witness ==
    /\ last.domain = "exception"
    /\ last.task # "persist"
    /\ start_ts = None
    /\ store # Absent
    /\ store.start_ts # None

\* C7. Cancellation: once async_stop has returned no tick is pending on
\* the timer, whatever was in flight when it was called.
C7_NoTickAfterStop == ~unsub => timer = 0

\* C8. Persist before dependent effect: when the eager tick of a
\* notification evaluates the policy, the save spawned by the same
\* notification has completed.
C8_SavedBeforeTick ==
    [][\A t \in Running :
          (t.kind = "etick" /\ t.nid # 0 /\ TickEval(t)) =>
              ~\E p \in Running : p.kind = "persist" /\ p.nid = t.nid]_vars

\* C9. Every state-change event handled, for either entity and with or
\* without a new state, spawns one eager tick.
C9_EveryEventTicks ==
    [][last'.domain = "event" => EvalTicks(tasks') = EvalTicks(tasks) + 1]_vars

\* The anchor is set and max_minutes or more have passed since.
RemainingZero ==
    /\ start_ts # None
    /\ ParseDatetime(start_ts) # NoDt
    /\ 60 * MaxMinutes - (now - ParseDatetime(start_ts)) <= 0

\* C10. The only service call on a switch is turn_off of the keep-warm
\* switch, and it is dispatched only by a tick evaluation in a state where
\* the switch is on, an anchor is set and the status is an abort status or
\* the remaining time is zero.
C10_OnlyTurnOff ==
    /\ [](last.domain = "switch" => last = TurnOffCall)
    /\ [](last.domain \in {"none", "event", "exception", "switch",
                           "persistent_notification", "async_add_entities"})
    /\ [][last'.domain = "switch" =>
            /\ TickEvaluates
            /\ switch = "on" /\ start_ts # None
            /\ status \in AbortStatuses \/ RemainingZero]_vars

\* A turn_off was dispatched on a timeout, the status being no abort
\* status.
C10_Witness ==
    /\ last = TurnOffCall
    /\ status \notin AbortStatuses
    /\ \E t \in Running : t.pc = "clear" /\ t.reason = TimeoutReason

\* C11. A failing store save reaches the caller of the operation that
\* triggered it: no save fails in a _persist task spawned by
\* _handle_state_event, whose caller has been handed a normal return in
\* the step of the event.
C11_FailureReachesCaller ==
    [][\A t \in Running : SaveFail(t) => t.kind # "persist"]_vars

\* The live switch is on and the anchor is a timestamp that parses.
Counting ==
    /\ switch = "on"
    /\ start_ts # None
    /\ start_ts # BadText

\* C12. remaining_td is None whenever the protocol is not active or the
\* anchor does not parse; otherwise it is max(0, max_minutes - (now -
\* anchor)), never negative, zero once max_minutes have passed, and it does
\* not increase as the clock advances on the same anchor.
C12_Countdown ==
    /\ [](~Counting => RemainingTd = NoTd)
    /\ [](Counting =>
            LET left == 60 * MaxMinutes - (now - start_ts.secs)
            IN /\ RemainingTd = IF left > 0 THEN left ELSE 0
               /\ RemainingTd >= 0
               /\ now - start_ts.secs >= 60 * MaxMinutes => RemainingTd = 0)
    /\ [][(Counting /\ start_ts' = start_ts /\ switch' = switch
              /\ now' >= now) => RemainingTd' <= RemainingTd]_vars

\* The countdown sits at its floor, more than max_minutes after the anchor.
C12_Witness ==
    /\ Counting
    /\ now - start_ts.secs > 60 * MaxMinutes
    /\ RemainingTd = 0

\* C13 as stated, its last part. A poll that ends while the store holds the
\* engine's current anchor leaves is_on equal to is_protocol_active.
C13_AgreesAsStated ==
    [][(AsyncUpdate /\ LoadStartTs(store) = start_ts) =>
          (IsOn' <=> IsProtocolActive')]_vars

\* C13. is_on is the live switch being "on" and the anchor of the last load
\* being set; after every poll that is the anchor the poll loaded from the
\* store; a poll leaves the store as it is and the store changes only by a
\* completed save of the engine; a poll that loaded the engine's current
\* anchor leaves is_on equal to is_protocol_active.
C13_Indicator ==
    /\ [](IsOn <=> (switch = "on" /\ bs_start_ts # None))
    /\ [][AsyncUpdate =>
            (IsOn' <=> (switch = "on" /\ bs_poll.stored # Absent
                            /\ bs_poll.stored.start_ts # None))]_vars
    /\ [][bs_poll' # bs_poll => store' = store]_vars
    /\ [][bs_start_ts' # bs_start_ts => store' = store]_vars
    /\ [][store' # store => \E t \in Running : SaveDone(t)]_vars
    /\ [][(AsyncUpdate /\ LoadStartTs(bs_poll.stored) = start_ts) =>
            (IsOn' <=> IsProtocolActive')]_vars

\* A poll has ended and the sensor is on with the anchor it loaded, while
\* the engine has cleared its anchor and saved that since the load.
C13_Witness ==
    /\ bs_poll = Idle
    /\ IsOn
    /\ start_ts = None
    /\ store = Mapping(None)
    /\ ~IsProtocolActive

\* Two decimal digits of n < 100, then MM:SS of a number of seconds.
Digit == <<"0", "1", "2", "3", "4", "5", "6", "7", "8", "9">>
TwoDigits(n) == Digit[(n \div 10) + 1] \o Digit[(n % 10) + 1]
Clock(total) == TwoDigits(total \div 60) \o ":" \o TwoDigits(total % 60)

\* C14 as stated. For every warm value: "Warm (MM:SS)" when the status is
\* the warm value and the protocol is active with a remaining time, "Warm"
\* whenever else the status is the warm value, then "Heating", "Standby",
\* "unknown" for a status entity without live state, the status itself
\* otherwise.
C14_LabelAsStated ==
    \A wv \in WarmValues :
        StatusLive(status, wv, switch, start_ts, now) =
            IF status = wv /\ Counting
            THEN "Warm (" \o Clock(RemainingTd) \o ")"
            ELSE IF status = wv THEN "Warm"
            ELSE IF status = "heating" THEN "Heating"
            ELSE IF status = "standby" THEN "Standby"
            ELSE IF status = Missing THEN "unknown"
            ELSE status

\* C14 amended. With s the live status, "unknown" standing for a status
\* entity without live state: "Warm (MM:SS)" when s is the warm value and
\* the protocol is active with a remaining time, "Warm" when s is the warm
\* value and the protocol is active without one; otherwise "Heating" for
\* "heating" and "Standby" for "standby" (also when that is the warm
\* value), "Warm" for any other warm value, s itself otherwise; 95 seconds
\* read 01:35.
C14_Label ==
    /\ Mmss(95) = "01:35"
    /\ \A wv \in WarmValues :
        LET s == IF status = Missing THEN "unknown" ELSE status
        IN StatusLive(status, wv, switch, start_ts, now) =
            IF s = wv /\ Counting
            THEN "Warm (" \o Clock(RemainingTd) \o ")"
            ELSE IF s = wv /\ switch = "on" /\ start_ts # None THEN "Warm"
            ELSE IF s = "heating" THEN "Heating"
            ELSE IF s = "standby" THEN "Standby"
            ELSE IF s = wv THEN "Warm"
            ELSE s

\* The status is the warm value with 35 seconds left.
C14_Witness ==
    /\ status = WarmValue
    /\ Counting
    /\ RemainingTd = 35
    /\ StatusLive(status, WarmValue, switch, start_ts, now) = "Warm (00:35)"

\* C16. At most one force-abort per armed episode: once a tick has
\* decided to abort (it has dispatched turn_off and not yet cleared the
\* anchor) no other tick finds the protocol active and decides to abort.
C16_OneAbort ==
    [][\A t \in Running :
          (TickEval(t) /\ TickDecision # NoReason) =>
              ~\E u \in Running : IsTick(u) /\ u.pc = "clear"]_vars

\* The ticks pending on the timer or in flight as timer callbacks.
TicksAlive ==
    (IF timer # 0 THEN 1 ELSE 0)
    + BagCardinality([t \in {u \in Running : u.kind = "ptick"} |-> tasks[t]])

\* C17. From async_start until async_stop exactly one periodic tick is
\* pending on the timer or in flight.
C17_OneTickAlive == unsub => TicksAlive = 1

\* C18. While the protocol is active and no tick is about to evaluate, the
\* pending timer is not the idle one: the next evaluation is at most
\* UPDATE_ACTIVE_SECONDS away.
C18_ActiveCadence ==
    (IsProtocolActive /\ ~\E t \in Running : IsTick(t) /\ t.pc = "eval")
        => timer # UPDATE_IDLE_SECONDS

\* C19. When the live switch state is not "on" and no task of the engine
\* is in flight, the anchor is None.
C19_AnchorFresh ==
    (switch # "on" /\ tasks = EmptyBag) => start_ts = None

\* The saves under way, and the one started last.
Saving == {t \in Running : t.pc = "saving"}
NewestSave == {t \in Saving : t.ticket = Cardinality(Saving)}
PersistWaits == \E t \in Running : t.kind = "persist" /\ t.pc = "start"

\* C20. On a store that does not fail and completes the saves in the order
\* they start, for every interleaving of up to MaxSaveTasks tasks: whenever
\* no task of the engine is in flight the store holds the in-memory anchor
\* (nothing saved yet counting as None); and whenever no spawned _persist
\* is still to start, the save started last carries the in-memory anchor,
\* whatever the anchor was when its task was spawned.
C20_StoreConverges ==
    /\ tasks = EmptyBag => LoadStartTs(store) = start_ts
    /\ ~PersistWaits => \A t \in NewestSave : t.data = start_ts

\* Two notifications changed the anchor (set, then cleared) before the
\* _persist of the first one started: both saves are under way, nothing
\* is stored yet, and both carry the cleared anchor.
C20_Witness ==
    /\ store = Absent
    /\ start_ts = None
    /\ \E t, u \in Saving :
          /\ t.kind = "persist" /\ u.kind = "persist"
          /\ t.ticket = 1 /\ u.ticket = 2
          /\ t.data = None /\ u.data = None

\* The whitespace characters among those the texts are made of: tab, line
\* feed, blank, no-break space.
Blanks == {9, 10, 32, 160}

\* The positions that bound the comma-separated parts of r.
Cuts(r) == {0} \cup {i \in 1..Len(r) : r[i] = 44} \cup {Len(r) + 1}
\* The positions of the part that starts after the cut a.
PartOf(r, a) ==
    LET b == CHOOSE c \in Cuts(r) :
                 c > a /\ \A d \in Cuts(r) : d > a => d >= c
    IN {i \in (a + 1)..(b - 1) : r[i] \notin Blanks}
\* The cuts whose part holds a character that is no whitespace.
Kept(r) == {a \in Cuts(r) : a <= Len(r) /\ PartOf(r, a) # {}}
MinOf(S) == CHOOSE x \in S : \A y \in S : x <= y
MaxOf(S) == CHOOSE x \in S : \A y \in S : x >= y
\* The token of the cut a: its part from the first to the last character
\* that is no whitespace.
TokenOf(r, a) == SubSeq(r, MinOf(PartOf(r, a)), MaxOf(PartOf(r, a)))

\* C15. The parsed abort statuses are the comma-separated parts of the
\* text in their order, each without its leading and trailing whitespace,
\* the empty ones left out; " standby , boil " gives standby, boil and a
\* text of commas and whitespace only gives the empty list.
C15_ParseAbortStatuses ==
    LET P == ParseAbortStatuses(raw)
    IN /\ Len(P) = Cardinality(Kept(raw))
       /\ \A j \in 1..Len(P) :
            \E a \in Kept(raw) :
                /\ Cardinality({b \in Kept(raw) : b < a}) = j - 1
                /\ P[j] = TokenOf(raw, a)
       /\ (\A i \in 1..Len(raw) : raw[i] \in Blanks \cup {44}) => P = <<>>
       /\ ParseAbortStatuses(<<32, 115, 116, 97, 110, 100, 98, 121, 32,
                               44, 32, 98, 111, 105, 108, 32>>)
             = << <<115, 116, 97, 110, 100, 98, 121>>,
                  <<98, 111, 105, 108>> >>

\* A text with an empty part, and a part with whitespace on both sides.
C15_Witness ==
    /\ raw = <<44, 32, 97, 10>>
    /\ ParseAbortStatuses(raw) = << <<97>> >>

====
